---- MODULE Spec2Model ----
(***************************************************************************)
(* robot-arm-ui: the constrained FABRIK solver computeIkAnglesFabrik       *)
(* (src/src/lib/motorControl.ts), the angle extraction                     *)
(* extractYawPitchDegrees and the stateful solver createRobotArmIkSolver   *)
(* (src/src/lib/ikts.ts); the routes POST /api/ik (src/unnamed/part_000)   *)
(* and POST /api/move, the Modbus driver and its pulse conversion          *)
(* (motorControl.ts, motorUtils.ts), the hook usePersistedState and the    *)
(* page Home (src/src/app/api/move/route.ts, lines 86-594).                *)
(*                                                                         *)
(* Numbers.  A TypeScript `number` is modelled in fixed point: a length or *)
(* coordinate v is the integer v * Scale, an angle is a whole number of    *)
(* degrees (Math.atan2 and the degree conversion deliver the nearest       *)
(* degree), sines and cosines are read from a table scaled by TrigScale.   *)
(* A quotient is rounded to the nearest integer.  NaN and Infinity do not  *)
(* exist in the integers: a division whose divisor is zero is recorded in  *)
(* the flag nonFinite, which stands for "some value is NaN or infinite".   *)
(***************************************************************************)
EXTENDS Integers, Sequences, FiniteSets

VARIABLES
    \* computeIkAnglesFabrik
    target,      \* argument target
    yawIn,       \* argument currentAnglesDeg.yawDeg
    cfg,         \* argument config (IkConfig)
    elbow,       \* local elbow
    end,         \* local end
    rawElbow,    \* the elbow of the backward pass before projectElbowToRing
    i,           \* loop counter
    err,         \* residual of the last forward pass
    pc,          \* position in the function
    term,        \* how the loop was left
    result,      \* returned value
    nonFinite,   \* some value computed so far is NaN or infinite
    \* extractYawPitchDegrees
    bones,       \* result.chain.bones, each a record [start, end]
    fk,          \* the joint angles the bones were posed from, or the empty record
    angles,      \* returned value
    xpc,
    \* createRobotArmIkSolver
    chain,       \* the pose of the closure's chain
    tgt,         \* the closure's target vector
    seed,        \* the pose the last solveForTarget started from
    lastUpdate,  \* the pose returned by the last update
    prevUpdate,  \* the pose the chain was left in before the last update
    got,         \* the pose returned by the last getResult
    nUpdates,    \* the number of updates so far
    \* POST /api/ik
    ikBody,      \* the request body
    ikPc,
    ikPayload,   \* the payload written to the solver's stdin
    ikResp,      \* the response
    ikProc,      \* the solver process
    ikExit,      \* how the solver process ended
    ikTimer,     \* the 20-second timer
    ikResolved,  \* resolved (line 51)
    ikTimedOut,  \* timedOut (line 52)
    ikResult,    \* the value the promise done was resolved with
    ikSettled,   \* the number of calls of resolve
    \* POST /api/move
    mvBody,      \* the request body
    mvPc,
    mvSent,      \* the payload of the request to the controller
    mvFetches,   \* the number of requests made to the controller
    mvResp,      \* the response
    \* angleToPulses, pulsesToAngle
    cvIn,        \* the argument: an angle or a pulse count
    cvPc,
    cvPulses,    \* the value of angleToPulses
    cvAngle,     \* the value of pulsesToAngle
    \* the motor driver: readPosition, moveToAngle, cleanup
    client,      \* module variable client
    isInitialized,
    clientId,    \* the slave id the client addresses
    drvCall,     \* the call in progress
    drvPc,
    drvRegs,     \* the registers of the last write
    drvResp,     \* the device's answer to the last request
    drvOut,      \* how the call's promise settled
    nCalls,      \* the number of calls so far
    \* the registers of a move, read back as a position
    rtAngle,     \* the angle moveToAngle is called with
    rtPc,
    rtPulses,    \* absPulses
    rtRegs,      \* register3 and register4
    rtRead,      \* the pulses readPosition returns
    \* usePersistedState
    hkStore,     \* localStorage[key]
    hkInitial,   \* localStorage[key] when the hook mounted
    hkAccess,    \* whether localStorage can be read and written
    hkValue,     \* value, as last rendered
    hkHydrated,  \* hydrated, as last rendered
    hkQueued,    \* the state the next render will have
    hkEffects,   \* the effects of the last render still to run
    hkLog,       \* the calls of getItem and setItem so far
    hkUpdates,   \* the number of calls of update so far
    \* Home
    angleDeg,    \* <<angle1Deg, angle2Deg, angle3Deg>>
    anim,        \* <<animA1, animA2, animA3>>
    fromRef,     \* fromRef.current
    toRef,       \* toRef.current
    raf,         \* an animation frame is requested (rafRef.current != null)
    tq,          \* t of the last frame of the tween
    lastG,       \* lastG1AnglesRef .. lastG4AnglesRef
    activeTarget,
    ikInFlight,  \* the requests to /api/ik whose promise is not settled
    ikIssued,    \* the number of calls of runIk
    ikApplied,   \* the call of runIk whose response was applied last, or 0
    spherePos,   \* spherePos, sphere2Pos .. sphere4Pos
    lastGTarget, \* the position the angles of lastG were solved for
    uiHydrated,  \* the persisted angles have been read
    arm,         \* the angles passed to RobotArm by the last render
    nEvents      \* the number of user and network events so far

vars == <<target, yawIn, cfg, elbow, end, rawElbow, i, err, pc, term, result,
          nonFinite, bones, fk, angles, xpc, chain, tgt, seed, lastUpdate,
          prevUpdate, got, nUpdates, ikBody, ikPc, ikPayload, ikResp, ikProc,
          ikExit, ikTimer, ikResolved, ikTimedOut, ikResult, ikSettled, mvBody,
          mvPc, mvSent, mvFetches, mvResp, cvIn, cvPc, cvPulses, cvAngle,
          client, isInitialized, clientId, drvCall, drvPc, drvRegs, drvResp,
          drvOut, nCalls, rtAngle, rtPc, rtPulses, rtRegs, rtRead, hkStore,
          hkInitial, hkAccess, hkValue, hkHydrated,
          hkQueued, hkEffects, hkLog, hkUpdates, angleDeg, anim, fromRef,
          toRef, raf, tq, lastG, activeTarget, ikInFlight, ikIssued, ikApplied,
          spherePos, lastGTarget, uiHydrated, arm, nEvents>>

fabrikVars == <<target, yawIn, cfg, elbow, end, rawElbow, i, err, pc, term,
                result, nonFinite>>
extractVars == <<bones, fk, angles, xpc>>
solverVars == <<chain, tgt, seed, lastUpdate, prevUpdate, got, nUpdates>>
ikVars == <<ikBody, ikPc, ikPayload, ikResp, ikProc, ikExit, ikTimer,
           ikResolved, ikTimedOut, ikResult, ikSettled>>
moveVars == <<mvBody, mvPc, mvSent, mvFetches, mvResp>>
convVars == <<cvIn, cvPc, cvPulses, cvAngle>>
driverVars == <<client, isInitialized, clientId, drvCall, drvPc, drvRegs,
                drvResp, drvOut, nCalls>>
regVars == <<rtAngle, rtPc, rtPulses, rtRegs, rtRead>>
hookVars == <<hkStore, hkInitial, hkAccess, hkValue, hkHydrated, hkQueued,
              hkEffects, hkLog, hkUpdates>>
homeVars == <<angleDeg, anim, fromRef, toRef, raf, tq, lastG, activeTarget,
              ikInFlight, ikIssued, ikApplied, spherePos, lastGTarget,
              uiHydrated, arm, nEvents>>
webVars == <<ikVars, moveVars, convVars, driverVars, regVars, hookVars,
            homeVars>>

----------------------------------------------------------------------------
(* Fixed-point arithmetic *)

\* one unit of length is Scale integer steps
Scale == 1000

\* sines and cosines are integers out of TrigScale
TrigScale == 10000

\* round(TrigScale * sin(j / 2 degrees)), j = 0 .. 180
SinTable ==
    << 0, 87, 175, 262, 349, 436, 523, 610, 698, 785, 872, 958,
        1045, 1132, 1219, 1305, 1392, 1478, 1564, 1650, 1736, 1822, 1908, 1994,
        2079, 2164, 2250, 2334, 2419, 2504, 2588, 2672, 2756, 2840, 2924, 3007,
        3090, 3173, 3256, 3338, 3420, 3502, 3584, 3665, 3746, 3827, 3907, 3987,
        4067, 4147, 4226, 4305, 4384, 4462, 4540, 4617, 4695, 4772, 4848, 4924,
        5000, 5075, 5150, 5225, 5299, 5373, 5446, 5519, 5592, 5664, 5736, 5807,
        5878, 5948, 6018, 6088, 6157, 6225, 6293, 6361, 6428, 6494, 6561, 6626,
        6691, 6756, 6820, 6884, 6947, 7009, 7071, 7133, 7193, 7254, 7314, 7373,
        7431, 7490, 7547, 7604, 7660, 7716, 7771, 7826, 7880, 7934, 7986, 8039,
        8090, 8141, 8192, 8241, 8290, 8339, 8387, 8434, 8480, 8526, 8572, 8616,
        8660, 8704, 8746, 8788, 8829, 8870, 8910, 8949, 8988, 9026, 9063, 9100,
        9135, 9171, 9205, 9239, 9272, 9304, 9336, 9367, 9397, 9426, 9455, 9483,
        9511, 9537, 9563, 9588, 9613, 9636, 9659, 9681, 9703, 9724, 9744, 9763,
        9781, 9799, 9816, 9833, 9848, 9863, 9877, 9890, 9903, 9914, 9925, 9936,
        9945, 9954, 9962, 9969, 9976, 9981, 9986, 9990, 9994, 9997, 9998, 10000,
        10000 >>

Abs(a) == IF a < 0 THEN -a ELSE a

Sign(a) == IF a > 0 THEN 1 ELSE IF a < 0 THEN -1 ELSE 0

Max2(a, b) == IF a >= b THEN a ELSE b

Min2(a, b) == IF a <= b THEN a ELSE b

\* a / b rounded to the nearest integer, b > 0
RDiv(a, b) ==
    IF a >= 0 THEN (2 * a + b) \div (2 * b)
    ELSE -((2 * (-a) + b) \div (2 * b))

\* the largest r in lo .. hi with r * r <= n
RECURSIVE SqrtSearch(_, _, _)
SqrtSearch(n, lo, hi) ==
    IF lo >= hi THEN lo
    ELSE LET mid == (lo + hi + 1) \div 2
         IN IF mid * mid <= n THEN SqrtSearch(n, mid, hi)
            ELSE SqrtSearch(n, lo, mid - 1)

\* Math.sqrt: the square root rounded to the nearest integer
Sqrt(n) ==
    LET r == SqrtSearch(n, 0, 46340)
    IN IF n - r * r > r THEN r + 1 ELSE r

\* sine and cosine of a half-degree count h in 0 .. 180 (0 to 90 degrees)
SinHalf(h) == SinTable[h + 1]

CosHalf(h) == SinTable[181 - h]

\* an angle in degrees brought into [0, 360)
Mod360(d) == d % 360

\* Math.sin of a whole number of degrees, out of TrigScale
SinDeg(d) ==
    LET a == Mod360(d)
    IN IF a <= 90 THEN SinHalf(2 * a)
       ELSE IF a <= 180 THEN SinHalf(2 * (180 - a))
       ELSE IF a <= 270 THEN -SinHalf(2 * (a - 180))
       ELSE -SinHalf(2 * (360 - a))

\* Math.cos of a whole number of degrees, out of TrigScale
CosDeg(d) == SinDeg(d + 90)

\* atan2 in the first quadrant (x >= 0, y >= 0), to the nearest degree: the
\* number of half-degree boundaries m + 1/2 the direction has passed
AtanQ1(y, x) ==
    Cardinality({m \in 0 .. 89 :
        CosHalf(2 * m + 1) * y - SinHalf(2 * m + 1) * x >= 0})

\* Math.atan2(y, x) in degrees, to the nearest degree; atan2(0, 0) = 0
Atan2Deg(y, x) ==
    IF x = 0 /\ y = 0 THEN 0
    ELSE IF x >= 0 /\ y >= 0 THEN AtanQ1(y, x)
    ELSE IF x < 0 /\ y >= 0 THEN 180 - AtanQ1(y, -x)
    ELSE IF x < 0 THEN -(180 - AtanQ1(-y, -x))
    ELSE -AtanQ1(-y, x)

----------------------------------------------------------------------------
(* Vectors: Vec3 = [number, number, number] *)

Vec(x, y, z) == <<x, y, z>>

Add(a, b) == <<a[1] + b[1], a[2] + b[2], a[3] + b[3]>>

Sub(a, b) == <<a[1] - b[1], a[2] - b[2], a[3] - b[3]>>

Dot(a, b) == a[1] * b[1] + a[2] * b[2] + a[3] * b[3]

MaxAbs(a) == Max2(Abs(a[1]), Max2(Abs(a[2]), Abs(a[3])))

\* Math.hypot(dx, dy, dz)
Hypot(d) == Sqrt(Dot(d, d))

\* A double keeps the relative precision of a short vector; fixed point
\* does not.  Precision(d) is the factor by which d is magnified before its
\* length is taken, so that the quotient d / |d| keeps its direction: the
\* largest factor that keeps the squares within 32 bits.
Precision(d) == Max2(1, 25000 \div Max2(1, MaxAbs(d)))

\* (d / |d|) * len for d # 0: the vector of length len along d
Resize(d, len) ==
    LET k == Precision(d)
        dk == <<k * d[1], k * d[2], k * d[3]>>
        h == Hypot(dk)
    IN <<RDiv(dk[1] * len, h), RDiv(dk[2] * len, h), RDiv(dk[3] * len, h)>>

\* the length used as it is, zero or not
OrOneMissing(h) == h

\* `h || 1`: a zero length is replaced by 1
OrOne(h) == IF h = 0 THEN Scale ELSE h

\* [(dx / len) * l, (dy / len) * l, (dz / len) * l].  With len = |d| this is
\* Resize; with another divisor (the 1 that replaces a zero length) it is
\* the plain quotient.  A zero divisor yields no number: the caller records
\* it in nonFinite, and the value returned here is not used as one.
DivLenTimes(d, len, l) ==
    IF len = 0 THEN <<0, 0, 0>>
    ELSE IF len = Hypot(d) THEN Resize(d, l)
    ELSE <<RDiv(d[1] * l, len), RDiv(d[2] * l, len), RDiv(d[3] * l, len)>>

----------------------------------------------------------------------------
(* computeIkAnglesFabrik: inputs *)

\* IkConfig
Config(b, off, len, pmin, pmax) ==
    [basePosition |-> b, elbowOffsetFromBaseLocal |-> off,
     endEffectorLength |-> len, pitchMinDeg |-> pmin, pitchMaxDeg |-> pmax]

\* The geometry the function is documented for (base at [0, -1, 0], ring
\* 3 above the base with radius 4, end effector 10), with two pitch ranges,
\* a second geometry with the base off the origin (ring radius 5), and the
\* documented geometry with an end effector of length 0 (IkConfig is a
\* plain object type: any number is accepted for endEffectorLength).
Configs ==
    { Config(Vec(0, -Scale, 0), Vec(4 * Scale, 3 * Scale, 0), 10 * Scale, -90, 90),
      Config(Vec(0, -Scale, 0), Vec(4 * Scale, 3 * Scale, 0), 10 * Scale, -30, 45),
      Config(Vec(Scale, 0, -Scale), Vec(3 * Scale, 2 * Scale, 4 * Scale), 6 * Scale, -90, 90),
      Config(Vec(0, -Scale, 0), Vec(4 * Scale, 3 * Scale, 0), 0, -90, 90) }

\* targets lie on a grid of GridStep, GridMax steps each way
GridMax == 1

GridStep == 5 * Scale

\* the base anchor, the elbow at yaw 0, a point on the base's vertical axis,
\* a target whose backward pass puts the elbow on that axis, the target of
\* the documented example, and a target exactly 10 from the elbow at yaw 0
NamedTargets ==
    { Vec(0, -Scale, 0), Vec(4 * Scale, 2 * Scale, 0), Vec(0, 9 * Scale, 0),
      Vec(-10 * Scale, 2 * Scale, 0), Vec(Scale, 3 * Scale, -Scale),
      Vec(4 * Scale, 12 * Scale, 0), Vec(4 * Scale, 8 * Scale, 8 * Scale) }

Targets ==
    NamedTargets \cup
    { Vec(gx * GridStep, gy * GridStep, gz * GridStep) :
        gx \in -GridMax .. GridMax, gy \in -GridMax .. GridMax,
        gz \in -GridMax .. GridMax }

\* currentAnglesDeg.yawDeg
Yaws == {-90, 0, 37, 180}

NoResult == [yawDeg |-> 0]

Origin == Vec(0, 0, 0)

----------------------------------------------------------------------------
(* computeIkAnglesFabrik: the function *)

maxIter == 20

\* tol = 1e-3
tol == Scale \div 1000

ringY(c) == c.basePosition[2] + c.elbowOffsetFromBaseLocal[2]

ringR(c) ==
    Hypot(Vec(c.elbowOffsetFromBaseLocal[1], 0, c.elbowOffsetFromBaseLocal[3]))

link2(c) == c.endEffectorLength

\* the elbow on the ring at yaw0
SeedElbow(c, yaw0) ==
    Vec(c.basePosition[1] + RDiv(ringR(c) * CosDeg(yaw0), TrigScale),
        ringY(c),
        c.basePosition[3] - RDiv(ringR(c) * SinDeg(yaw0), TrigScale))

\* from + ((to - from) / len) * link2, with len = |to - from| || 1
Reach(from, to, c) ==
    LET d == Sub(to, from)
        len == OrOne(Hypot(d))
    IN Add(from, DivLenTimes(d, len, link2(c)))

\* the divisor of Reach is zero
ReachDividesByZero(from, to) == OrOne(Hypot(Sub(to, from))) = 0

\* the projection without its test for a point on the axis
RingGuardNever(lenXZ) == FALSE

\* `if (lenXZ === 0)`
RingGuard(lenXZ) == lenXZ = 0

projectElbowToRing(p, c) ==
    LET base == c.basePosition
        dx == p[1] - base[1]
        dz == p[3] - base[3]
        lenXZ == Hypot(Vec(dx, 0, dz))
        s == DivLenTimes(Vec(dx, 0, dz), lenXZ, ringR(c))
    IN IF RingGuard(lenXZ) THEN Vec(base[1] + ringR(c), ringY(c), base[3])
       ELSE Vec(base[1] + s[1], ringY(c), base[3] + s[3])

\* ringR / lenXZ is evaluated with lenXZ = 0
ProjectDividesByZero(p, c) ==
    LET lenXZ == Hypot(Vec(p[1] - c.basePosition[1], 0, p[3] - c.basePosition[3]))
    IN ~RingGuard(lenXZ) /\ lenXZ = 0

\* the loop condition off by one
LoopGuardOffByOne(n) == n <= maxIter

\* the loop condition i < maxIter
LoopGuard(n) == n < maxIter

\* `if (err < tol) break`
Converged(e) == e < tol

\* yaw of base->elbow
YawOf(e, c) ==
    LET vBE == Sub(e, c.basePosition)
    IN Atan2Deg(-vBE[3], vBE[1])

\* pitch of elbow->end in the frame turned by the yaw, before clamping
PitchOf(e, n, c) ==
    LET yaw == YawOf(e, c)
        vEE == Sub(n, e)
        ly == vEE[2]
        lz == RDiv(-vEE[1] * SinDeg(yaw) + vEE[3] * CosDeg(yaw), TrigScale)
    IN Atan2Deg(lz, ly)

\* clamp to joint limits
ClampPitch(pitch, c) ==
    LET p1 == IF pitch > c.pitchMaxDeg THEN c.pitchMaxDeg ELSE pitch
    IN IF p1 < c.pitchMinDeg THEN c.pitchMinDeg ELSE p1

InitFabrik ==
    /\ target \in Targets
    /\ yawIn \in Yaws
    /\ cfg \in Configs
    /\ elbow = Origin
    /\ end = Origin
    /\ rawElbow = Origin
    /\ i = 0
    /\ err = 0
    /\ pc = "entry"
    /\ term = "Idle"
    /\ result = NoResult
    /\ nonFinite = FALSE

\* lines 120-138: elbow seeded on the ring at the caller's yaw, end toward
\* the target
Seed ==
    /\ pc = "entry"
    /\ elbow' = SeedElbow(cfg, yawIn)
    /\ end' = Reach(elbow', target, cfg)
    /\ nonFinite' = ReachDividesByZero(elbow', target)
    /\ i' = 0
    /\ term' = "Iterating"
    /\ pc' = "loop"
    /\ UNCHANGED <<target, yawIn, cfg, rawElbow, err, result>>

\* lines 153-161: end set to the target, elbow moved to keep link2, then
\* projected to the ring
BackwardPass ==
    /\ pc = "loop"
    /\ LoopGuard(i)
    /\ end' = target
    /\ rawElbow' = Reach(target, elbow, cfg)
    /\ elbow' = projectElbowToRing(rawElbow', cfg)
    /\ nonFinite' = (nonFinite \/ ReachDividesByZero(target, elbow)
                        \/ ProjectDividesByZero(rawElbow', cfg))
    /\ pc' = "forward"
    /\ UNCHANGED <<target, yawIn, cfg, i, err, term, result>>

\* lines 163-172: elbow projected to the ring, end at link2 from it toward
\* the target, then the residual and the break
ForwardPass ==
    /\ pc = "forward"
    /\ elbow' = projectElbowToRing(elbow, cfg)
    /\ end' = Reach(elbow', target, cfg)
    /\ nonFinite' = (nonFinite \/ ProjectDividesByZero(elbow, cfg)
                        \/ ReachDividesByZero(elbow', target))
    /\ err' = Hypot(Sub(end', target))
    /\ IF Converged(err') /\ ~nonFinite'
       THEN /\ pc' = "extract"
            /\ term' = "Converged"
            /\ i' = i
       ELSE /\ pc' = "loop"
            /\ term' = term
            /\ i' = i + 1
    /\ UNCHANGED <<target, yawIn, cfg, rawElbow, result>>

\* line 153: the loop ends with i = maxIter
LoopEnd ==
    /\ pc = "loop"
    /\ ~LoopGuard(i)
    /\ term' = "IterationLimitReached"
    /\ pc' = "extract"
    /\ UNCHANGED <<target, yawIn, cfg, elbow, end, rawElbow, i, err, result,
                   nonFinite>>

\* lines 175-190: the angles of the final pose, the pitch clamped
Extract ==
    /\ pc = "extract"
    /\ result' = [yawDeg |-> YawOf(elbow, cfg),
                  pitchDeg |-> ClampPitch(PitchOf(elbow, end, cfg), cfg)]
    /\ pc' = "done"
    /\ UNCHANGED <<target, yawIn, cfg, elbow, end, rawElbow, i, err, term,
                   nonFinite>>

----------------------------------------------------------------------------
(* three.js Vector3 and Quaternion, as extractYawPitchDegrees uses them.    *)
(* A unit vector has length Scale; a quaternion is <<x, y, z, w>>.          *)

Cross(a, b) ==
    Vec(a[2] * b[3] - a[3] * b[2],
        a[3] * b[1] - a[1] * b[3],
        a[1] * b[2] - a[2] * b[1])

Scaled(a, k) == Vec(a[1] * k, a[2] * k, a[3] * k)

\* a product of two fixed-point numbers, each component brought back to Scale
Down(a) == Vec(RDiv(a[1], Scale), RDiv(a[2], Scale), RDiv(a[3], Scale))

\* Vector3.normalize: divideScalar(length() || 1)
Normalize(v) == DivLenTimes(v, OrOne(Hypot(v)), Scale)

\* Quaternion.normalize: the identity for a zero quaternion
QNormalize(q) ==
    LET k == Max2(1, 12000 \div Max2(1, Max2(MaxAbs(Vec(q[1], q[2], q[3])), Abs(q[4]))))
        qk == <<k * q[1], k * q[2], k * q[3], k * q[4]>>
        l == Sqrt(qk[1] * qk[1] + qk[2] * qk[2] + qk[3] * qk[3] + qk[4] * qk[4])
    IN IF l = 0 THEN <<0, 0, 0, Scale>>
       ELSE <<RDiv(qk[1] * Scale, l), RDiv(qk[2] * Scale, l),
              RDiv(qk[3] * Scale, l), RDiv(qk[4] * Scale, l)>>

\* Quaternion.setFromUnitVectors(vFrom, vTo): the shortest rotation taking
\* vFrom to vTo; for opposite vectors a half turn about an axis orthogonal
\* to vFrom
setFromUnitVectors(vFrom, vTo) ==
    LET r == RDiv(Dot(vFrom, vTo), Scale) + Scale
        c == Down(Cross(vFrom, vTo))
    IN IF r <= 0
       THEN IF Abs(vFrom[1]) > Abs(vFrom[3])
            THEN QNormalize(<<-vFrom[2], vFrom[1], 0, 0>>)
            ELSE QNormalize(<<0, -vFrom[3], vFrom[2], 0>>)
       ELSE QNormalize(<<c[1], c[2], c[3], r>>)

\* Vector3.applyQuaternion: v + w * t + q x t, with t = 2 * (q x v)
applyQuaternion(v, q) ==
    LET qv == Vec(q[1], q[2], q[3])
        t == Down(Scaled(Cross(qv, v), 2))
        wt == Down(Scaled(t, q[4]))
        qt == Down(Cross(qv, t))
    IN Add(v, Add(wt, qt))

\* projOntoPlane: v - axis * (v . axis), normalized
projOntoPlane(v, axis) ==
    Normalize(Sub(v, Down(Scaled(axis, RDiv(Dot(v, axis), Scale)))))

----------------------------------------------------------------------------
(* extractYawPitchDegrees *)

\* the sign that angleBetween3D gives the angle: Math.sign of ref . cross
AngleSign(ref, cross) == Sign(Dot(ref, cross))

\* the signed angle from a to b about ref, in degrees
angleBetween3D(a, b, ref) ==
    LET dot == RDiv(Dot(a, b), Scale)
        cross == Down(Cross(a, b))
        crossMag == Sqrt(Dot(cross, cross))
        angle == Atan2Deg(crossMag, dot)
    IN angle * AngleSign(ref, cross)

BoneVec(b) == Sub(b.end, b.start)

\* (dx / l, dy / l, dz / l) with l = hypot || 1
BoneDir(b) == DivLenTimes(BoneVec(b), OrOne(Hypot(BoneVec(b))), Scale)

\* Math.max(lo, Math.min(hi, x))
Clamp(x, lo, hi) == Max2(lo, Min2(hi, x))

\* the hinge angle of a bone about the previous bone's direction `axis`,
\* measured from [0, 1, 0] turned by the rotation taking +X to the axis
HingeAngle(dir, axis) ==
    LET q == setFromUnitVectors(Vec(Scale, 0, 0), axis)
        refWorld == Normalize(applyQuaternion(Vec(0, Scale, 0), q))
        refProj == projOntoPlane(refWorld, axis)
        dirProj == projOntoPlane(dir, axis)
    IN angleBetween3D(refProj, dirProj, axis)

\* the pitch reported as measured
PitchLimitNone(p) == p

\* the clamp of the reported pitch
PitchLimit(p) == Clamp(p, -90, 90)

\* the clamp of the reported forearm angle
ForearmLimit(f) == Clamp(f, -90, 90)

extractYawPitchDegrees(bs) ==
    IF Len(bs) < 3 THEN [yawDeg |-> 0, pitchDeg |-> 0]
    ELSE LET yawDeg == angleBetween3D(Vec(Scale, 0, 0), BoneVec(bs[2]),
                                      Vec(0, Scale, 0))
             pitchDeg == HingeAngle(BoneDir(bs[3]), BoneDir(bs[2]))
         IN IF Len(bs) >= 5
            THEN [yawDeg |-> yawDeg, pitchDeg |-> PitchLimit(pitchDeg),
                  forearmDeg |-> ForearmLimit(HingeAngle(BoneDir(bs[5]), BoneDir(bs[4])))]
            ELSE [yawDeg |-> yawDeg, pitchDeg |-> PitchLimit(pitchDeg)]

\* extractYawPitchDegrees is one step
ExtractAngles ==
    /\ xpc = "entry"
    /\ angles' = extractYawPitchDegrees(bones)
    /\ xpc' = "done"
    /\ UNCHANGED <<bones, fk>>

----------------------------------------------------------------------------
(* extractYawPitchDegrees: inputs *)

Bone(s, e) == [start |-> s, end |-> e]

\* a vector of length len * Scale along the direction u given out of TrigScale
Along(u, len) ==
    Vec(RDiv(len * Scale * u[1], TrigScale), RDiv(len * Scale * u[2], TrigScale),
        RDiv(len * Scale * u[3], TrigScale))

\* +X turned about +Y by yaw
YawDir(yaw) == Vec(CosDeg(yaw), 0, -SinDeg(yaw))

\* [0, 1, 0] turned about the axis YawDir(yaw) by a
HingeDir(yaw, a) ==
    Vec(RDiv(SinDeg(a) * SinDeg(yaw), TrigScale), CosDeg(a),
        RDiv(SinDeg(a) * CosDeg(yaw), TrigScale))

\* the bones laid end to end from the base anchor [0, -1, 0]
RECURSIVE Lay(_, _)
Lay(from, vs) ==
    IF vs = <<>> THEN <<>>
    ELSE <<Bone(from, Add(from, Head(vs)))>> \o Lay(Add(from, Head(vs)), Tail(vs))

\* the arm of createRobotArmIkSolver (base 3, shoulder 4, ankle 10,
\* ankle2 4, forearm 10) posed by forward kinematics: the shoulder turned
\* about +Y by yaw, the ankle turned about the shoulder by pitch, ankle2
\* opposite to the shoulder, the forearm turned about ankle2 by forearm
PosedChain(yaw, pitch, forearm, n) ==
    SubSeq(Lay(Vec(0, -Scale, 0),
               << Vec(0, 3 * Scale, 0),
                  Along(YawDir(yaw), 4),
                  Along(HingeDir(yaw, pitch), 10),
                  Along(YawDir(yaw + 180), 4),
                  Along(HingeDir(yaw + 180, forearm), 10) >>),
           1, n)

FkYaws == {-135, -90, -37, 0, 45, 90, 120, 180}

FkPitches == {-90, -45, -10, 0, 30, 90}

FkForearms == {-90, 0, 60}

\* bone vectors of arbitrary poses, among them a zero-length bone
FreeVecs ==
    { Vec(Scale, 0, 0), Vec(-Scale, 0, 0), Vec(0, Scale, 0), Vec(0, -2 * Scale, 0),
      Vec(0, 0, Scale), Vec(Scale, 2 * Scale, -2 * Scale), Vec(-3 * Scale, 0, 4 * Scale),
      Vec(-999, 45, 0), Vec(0, 0, 0) }

NotPosed == [posed |-> FALSE, yaw |-> 0, pitch |-> 0, forearm |-> 0]

InitExtract ==
    /\ xpc = "entry"
    /\ angles = NoResult
    /\ \/ \E y \in FkYaws, p \in FkPitches, f \in FkForearms, n \in {3, 5} :
             /\ n = 3 => f = 0
             /\ bones = PosedChain(y, p, f, n)
             /\ fk = [posed |-> TRUE, yaw |-> y, pitch |-> p, forearm |-> f]
       \/ \E a \in FreeVecs, b \in FreeVecs, c \in FreeVecs, d \in FreeVecs,
             n \in {2, 3, 5} :
             /\ n < 5 => c = Vec(Scale, 0, 0) /\ d = Vec(Scale, 0, 0)
             /\ n < 3 => b = Vec(Scale, 0, 0)
             /\ bones = SubSeq(Lay(Vec(0, -Scale, 0),
                                   <<Vec(0, 3 * Scale, 0), a, b, c, d>>), 1, n)
             /\ fk = NotPosed

----------------------------------------------------------------------------
(* createRobotArmIkSolver.  Chain3D.solveForTarget belongs to the ikts     *)
(* library: it iterates from the bones' current positions, and the pose it *)
(* leaves is one of Poses.  Pose 0 is the rest pose of construction.       *)

\* the poses a solve may leave are 0 .. NumPoses
NumPoses == 3

\* a behaviour makes at most MaxUpdates updates
MaxUpdates == 3

Poses == 0 .. NumPoses

RestPose == 0

SolverTargets == {Vec(Scale, 3 * Scale, -Scale), Vec(0, 9 * Scale, 0)}

\* a chain built anew for every solve, as solveIkWithIkts does
StartPoseRest(c) == RestPose

\* the pose solveForTarget starts from: update solves the closure's one
\* chain, as the previous call left it
StartPose(c) == c

InitSolver ==
    /\ chain = RestPose
    /\ tgt = Origin
    /\ seed = RestPose
    /\ lastUpdate = RestPose
    /\ prevUpdate = RestPose
    /\ got = -1
    /\ nUpdates = 0

\* update(target): tgt.set, chain.solveForTarget(tgt), buildResult()
Update ==
    /\ nUpdates < MaxUpdates
    /\ \E t \in SolverTargets, p \in Poses :
          /\ tgt' = t
          /\ seed' = StartPose(chain)
          /\ chain' = p
          /\ lastUpdate' = p
    /\ prevUpdate' = chain
    /\ nUpdates' = nUpdates + 1
    /\ got' = -1

\* getResult(): buildResult() of the chain as it is
GetResult ==
    /\ nUpdates > 0
    /\ got' = chain
    /\ UNCHANGED <<chain, tgt, seed, lastUpdate, prevUpdate, nUpdates>>

----------------------------------------------------------------------------
(* JSON values of a request body.  A value is a record with its typeof in  *)
(* field t and its content in the sequence v: a number's value, an array's *)
(* elements.                                                               *)

Undefined == [t |-> "undefined", v |-> <<>>]

Str == [t |-> "string", v |-> <<>>]

Num(n) == [t |-> "number", v |-> <<n>>]

Arr(q) == [t |-> "array", v |-> q]

\* the value null
Null == [null |-> TRUE]

\* the value of a number
ValueOf(x) == x.v[1]

\* typeof x === 'number'
IsNumber(x) == x.t = "number"

----------------------------------------------------------------------------
(* POST /api/ik (src/unnamed/part_000).  Fractions are in hundredths.      *)

DefaultFractions == <<25, 50, 75>>

DefaultCtrajSteps == 6

\* config of the payload
ArmConfig ==
    [baseLength |-> 3, shoulderLength |-> 4, ankleLength |-> 10,
     ankle2Length |-> 4, forearmLength |-> 10]

IkTargets ==
    { Undefined, Str, Arr(<<1, 3>>), Arr(<<1, 3, -1>>), Arr(<<0, 9, 0>>) }

IkOrigins == { Undefined, Arr(<<0, 2, 0>>) }

IkFractions == { Undefined, Arr(<<50>>), Arr(DefaultFractions), Arr(<<10, 90>>) }

IkSteps == { Undefined, Num(DefaultCtrajSteps), Num(8) }

\* a body req.json() cannot parse
UnparsableBody == [parsed |-> FALSE]

IkBodies ==
    [parsed : {TRUE}, target : IkTargets, origin : IkOrigins,
     fractions : IkFractions, ctrajSteps : IkSteps]
    \cup {UnparsableBody}

NoPayload == [sent |-> FALSE]

NoResponse == [status |-> 0]

\* a check of the array only
NotAnArray(t) == t.t # "array"

\* line 12: !target || !Array.isArray(target) || target.length !== 3
InvalidTarget(t) == t.t # "array" \/ Len(t.v) # 3

\* lines 30-32: fractions and ctrajSteps of the payload
PayloadFractions(body) == Arr(DefaultFractions)

PayloadSteps(body) == Num(DefaultCtrajSteps)

\* lines 20-33
IkPayloadOf(body) ==
    [sent |-> TRUE, target |-> body.target, origin |-> body.origin,
     config |-> ArmConfig, fractions |-> PayloadFractions(body),
     use_ctraj |-> TRUE, ctrajSteps |-> PayloadSteps(body)]

\* the solver has not ended
NotEnded == [ended |-> FALSE]

\* the promise done is pending
NotSettled == [settled |-> FALSE]

InitIk ==
    /\ ikBody \in IkBodies
    /\ ikPc = "entry"
    /\ ikPayload = NoPayload
    /\ ikResp = NoResponse
    /\ ikProc = "none"
    /\ ikExit = NotEnded
    /\ ikTimer = "unset"
    /\ ikResolved = FALSE
    /\ ikTimedOut = FALSE
    /\ ikResult = NotSettled
    /\ ikSettled = 0

\* lines 9-78: the body is validated, the solver spawned, the handlers
\* registered, the payload written to its stdin and the timer set
IkPost ==
    /\ ikPc = "entry"
    /\ IF ~ikBody.parsed
          THEN /\ ikResp' = [status |-> 500, error |-> "Server error"]
               /\ ikPc' = "done"
               /\ UNCHANGED <<ikPayload, ikProc, ikTimer>>
       ELSE IF InvalidTarget(ikBody.target)
          THEN /\ ikResp' = [status |-> 400, error |-> "Invalid target"]
               /\ ikPc' = "done"
               /\ UNCHANGED <<ikPayload, ikProc, ikTimer>>
          ELSE /\ ikProc' = "running"
               /\ ikPayload' = IkPayloadOf(ikBody)
               /\ ikTimer' = "armed"
               /\ ikPc' = "solving"
               /\ UNCHANGED ikResp
    /\ UNCHANGED <<ikBody, ikExit, ikResolved, ikTimedOut, ikResult, ikSettled>>

\* lines 83-98: the response to the value of done; json tells whether the
\* solver's stdout parses
Respond(res, json) ==
    IF res.code # Num(0)
       THEN [status |-> 500, error |-> "Python solver failed",
             details |-> [code |-> res.code, timeout |-> res.timedOut]]
    ELSE IF ~json
       THEN [status |-> 500, error |-> "Invalid JSON from python"]
    ELSE [status |-> 200]

\* lines 55-58, 61-64: a handler resolves done; lines 80-98 then run before
\* any other event: the timer is cleared and the response returned
Settle(res, json) ==
    IF ~ikResolved
       THEN /\ ikResolved' = TRUE
            /\ ikResult' = [settled |-> TRUE, code |-> res.code,
                            timedOut |-> res.timedOut]
            /\ ikSettled' = ikSettled + 1
            /\ ikTimer' = IF ikTimer = "armed" THEN "cleared" ELSE ikTimer
            /\ ikResp' = Respond(res, json)
            /\ ikPc' = "done"
       ELSE UNCHANGED <<ikResolved, ikResult, ikSettled, ikTimer, ikResp, ikPc>>

\* the solver process ends by itself with an exit code ('exit', which the
\* route does not listen to); its stdio streams are still open
ProcExit ==
    /\ ikProc = "running"
    /\ ikProc' = "exited"
    /\ \E code \in {0, 1}, json \in BOOLEAN :
          ikExit' = [ended |-> TRUE, code |-> Num(code), json |-> json]
    /\ UNCHANGED <<ikBody, ikPc, ikPayload, ikResp, ikTimer, ikResolved,
                   ikTimedOut, ikResult, ikSettled>>

\* lines 60-65: the solver cannot be spawned ('error'); node emits 'close'
\* with the negative error number afterwards
ProcError ==
    /\ ikProc = "running"
    /\ ikTimer = "armed"
    /\ ikProc' = "failed"
    /\ ikExit' = [ended |-> TRUE, code |-> Num(-2), json |-> FALSE]
    /\ Settle([code |-> Num(-1), timedOut |-> FALSE], FALSE)
    /\ UNCHANGED <<ikBody, ikPayload, ikTimedOut>>

\* lines 54-59: the streams of the ended process are closed ('close')
ProcClose ==
    /\ ikProc \in {"exited", "killed", "failed"}
    /\ ikProc' = "closed"
    /\ Settle([code |-> ikExit.code, timedOut |-> ikTimedOut], ikExit.json)
    /\ UNCHANGED <<ikBody, ikPayload, ikExit, ikTimedOut>>

\* line 75: py.kill('SIGKILL') ends a running process and does nothing to
\* one that has ended
KillIgnored(proc) == proc

Kill(proc) == IF proc = "running" THEN "killed" ELSE proc

\* lines 71-78: the timer fires after 20 s
TimerFires ==
    /\ ikTimer = "armed"
    /\ ikTimer' = "fired"
    /\ IF ~ikResolved
          THEN /\ ikTimedOut' = TRUE
               /\ ikProc' = Kill(ikProc)
               /\ ikExit' = IF ikProc' = "killed"
                               THEN [ended |-> TRUE, code |-> Null,
                                     json |-> FALSE]
                            ELSE ikExit
          ELSE UNCHANGED <<ikTimedOut, ikProc, ikExit>>
    /\ UNCHANGED <<ikBody, ikPc, ikPayload, ikResp, ikResolved, ikResult,
                   ikSettled>>

IdleIk ==
    /\ ikBody = UnparsableBody
    /\ ikPc = "off"
    /\ ikPayload = NoPayload
    /\ ikResp = NoResponse
    /\ ikProc = "none"
    /\ ikExit = NotEnded
    /\ ikTimer = "unset"
    /\ ikResolved = FALSE
    /\ ikTimedOut = FALSE
    /\ ikResult = NotSettled
    /\ ikSettled = 0

----------------------------------------------------------------------------
(* POST /api/move (src/src/app/api/move/route.ts, lines 12-62).  A payload *)
(* is a function from the axes it has a key for to their numbers.          *)

Axes == {"a", "b", "c", "d"}

\* the legacy field of each axis
LegacyField ==
    [a |-> "baseYawDeg", b |-> "shoulderPitchDeg", c |-> "forearmPitchDeg",
     d |-> "wristPitchDeg"]

\* the values a legacy field and a flat field take in the requests explored
LegacyValues == [a |-> 10, b |-> 20, c |-> 0, d |-> -40]

FlatValues == [a |-> -1, b |-> 2, c |-> 3, d |-> 40]

\* body.angles: absent, not an object, or an object
LegacyObjects ==
    { [t |-> "object", f |-> f] :
        f \in [Axes -> {Undefined, Str}] \cup
              { [k \in Axes |-> IF k \in S THEN Num(LegacyValues[k]) ELSE x] :
                   S \in (SUBSET Axes) \ {{}}, x \in {Undefined, Str} } }

Legacies == { [t |-> "undefined", f |-> [k \in Axes |-> Undefined]],
              [t |-> "string", f |-> [k \in Axes |-> Undefined]] }
            \cup LegacyObjects

Flats ==
    [Axes -> {Undefined, Str}] \cup
    { [k \in Axes |-> IF k \in S THEN Num(FlatValues[k]) ELSE Undefined] :
         S \in (SUBSET Axes) \ {{}} }

MoveBodies ==
    { [parsed |-> TRUE, angles |-> l, flat |-> f] : l \in Legacies, f \in Flats }
    \cup {UnparsableBody}

\* the legacy fields keep their sign
LegacySignKept(k) == 1

\* lines 24-27: a = -1 * baseYawDeg, b = shoulderPitchDeg,
\* c = -1 * forearmPitchDeg, d = -1 * wristPitchDeg
LegacySign(k) == IF k = "b" THEN 1 ELSE -1

\* lines 23-28: the value an axis gets from body.angles
FromLegacy(body, k) ==
    IF body.angles.t = "object" /\ IsNumber(body.angles.f[k])
       THEN Num(LegacySign(k) * ValueOf(body.angles.f[k]))
       ELSE Undefined

\* lines 18-33: the value of a, b, c or d
AxisValue(body, k) ==
    IF IsNumber(body.flat[k]) THEN body.flat[k] ELSE FromLegacy(body, k)

\* nothing is ever refused
NeverRefused(body) == FALSE

\* line 35
NoParameters(body) == \A k \in Axes : AxisValue(body, k) = Undefined

\* lines 39-43
MovePayload(body) ==
    [k \in {x \in Axes : IsNumber(AxisValue(body, x))} |-> ValueOf(AxisValue(body, k))]

NothingSent == [k \in {} |-> 0]

InitMove ==
    /\ mvBody \in MoveBodies
    /\ mvPc = "entry"
    /\ mvSent = NothingSent
    /\ mvFetches = 0
    /\ mvResp = NoResponse

\* lines 13-51: the body is read and validated and the payload is posted
\* to the controller
MovePost ==
    /\ mvPc = "entry"
    /\ IF ~mvBody.parsed
          THEN /\ mvResp' = [status |-> 500, error |-> "Server error"]
               /\ mvPc' = "done"
               /\ UNCHANGED <<mvSent, mvFetches>>
       ELSE IF NoParameters(mvBody)
          THEN /\ mvResp' = [status |-> 400, error |-> "No parameters provided"]
               /\ mvPc' = "done"
               /\ UNCHANGED <<mvSent, mvFetches>>
          ELSE /\ mvSent' = MovePayload(mvBody)
               /\ mvFetches' = mvFetches + 1
               /\ mvPc' = "fetching"
               /\ UNCHANGED mvResp
    /\ UNCHANGED mvBody

\* lines 52-57: the controller answers, with JSON or not
MoveAnswered ==
    /\ mvPc = "fetching"
    /\ \E json \in BOOLEAN :
          mvResp' = [status |-> 200, ok |-> TRUE, sent |-> mvSent,
                     downstream |-> json]
    /\ mvPc' = "done"
    /\ UNCHANGED <<mvBody, mvSent, mvFetches>>

\* lines 58-61: the request to the controller fails
MoveFetchFails ==
    /\ mvPc = "fetching"
    /\ mvResp' = [status |-> 500, error |-> "Server error"]
    /\ mvPc' = "done"
    /\ UNCHANGED <<mvBody, mvSent, mvFetches>>

IdleMove ==
    /\ mvBody = UnparsableBody
    /\ mvPc = "off"
    /\ mvSent = NothingSent
    /\ mvFetches = 0
    /\ mvResp = NoResponse

----------------------------------------------------------------------------
(* motorUtils.ts.  An angle is a whole number of steps of 1 / AngleUnit    *)
(* degree; a pulse count is an integer.                                    *)

AngleUnit == 2000

\* (2 * 30000) / 180, as the fraction <<numerator, denominator>> in lowest
\* terms
PULSES_PER_DEGREE == <<(2 * 30000) \div 60, 180 \div 60>>

\* Math.floor(n / d), d > 0
FloorDiv(n, d) == IF n >= 0 THEN n \div d ELSE 0 - ((d - 1 - n) \div d)

\* n / d rounded down
RoundDown(n, d) == FloorDiv(n, d)

\* Math.round(n / d), d > 0: the nearest integer, a half rounded up
Round(n, d) == FloorDiv(2 * n + d, 2 * d)

\* no clamp
ClampNone(angle) == angle

\* Math.max(-180, Math.min(180, angle))
ClampAngle(angle) == Max2(-180 * AngleUnit, Min2(180 * AngleUnit, angle))

\* lines 8-11
angleToPulses(angle) ==
    Round(ClampAngle(angle) * PULSES_PER_DEGREE[1],
          PULSES_PER_DEGREE[2] * AngleUnit)

\* lines 13-15: pulses / PULSES_PER_DEGREE, which is a whole number of
\* steps of 1 / AngleUnit degree
pulsesToAngle(pulses) ==
    (pulses * PULSES_PER_DEGREE[2] * AngleUnit) \div PULSES_PER_DEGREE[1]

\* angles are explored within MaxFine steps of every multiple of 45 degrees
\* up to 225
MaxFine == 4

AngleInputs ==
    { k * 45 * AngleUnit + j : k \in -5 .. 5, j \in -MaxFine .. MaxFine }

PulseInputs ==
    { k * 15000 + j : k \in -4 .. 4, j \in -1 .. 1 }

InitConv ==
    /\ cvIn \in { [kind |-> "angle", x |-> a] : a \in AngleInputs }
                \cup { [kind |-> "pulses", x |-> q] : q \in PulseInputs }
    /\ cvPc = "entry"
    /\ cvPulses = 0
    /\ cvAngle = 0

\* angleToPulses(angle), and the angle of its pulses
AngleToPulses ==
    /\ cvPc = "entry"
    /\ cvIn.kind = "angle"
    /\ cvPulses' = angleToPulses(cvIn.x)
    /\ cvAngle' = pulsesToAngle(cvPulses')
    /\ cvPc' = "done"
    /\ UNCHANGED cvIn

\* pulsesToAngle(pulses)
PulsesToAngle ==
    /\ cvPc = "entry"
    /\ cvIn.kind = "pulses"
    /\ cvAngle' = pulsesToAngle(cvIn.x)
    /\ cvPulses' = cvIn.x
    /\ cvPc' = "done"
    /\ UNCHANGED cvIn

IdleConv ==
    /\ cvIn = [kind |-> "none", x |-> 0]
    /\ cvPc = "off"
    /\ cvPulses = 0
    /\ cvAngle = 0

----------------------------------------------------------------------------
(* motorControl.ts, lines 1-96: the Modbus driver.  A call runs up to its  *)
(* next await in one step.                                                 *)

POS_QTY == 2

MOVE_ABS_ADDR == 254

DEFAULT_TARGET_SLAVE_ID == 1

\* a behaviour makes at most MaxCalls calls
MaxCalls == 2

SlaveIds == {1, 2, 3}

DrvAngles == { -200 * AngleUnit, -90 * AngleUnit, 0, 45 * AngleUnit + 3,
               180 * AngleUnit }

DrvCalls ==
    { [op |-> "moveToAngle", angle |-> a, speed |-> 1000, acceleration |-> 70000,
       slaveId |-> sl] : a \in DrvAngles, sl \in SlaveIds }
    \cup { [op |-> "readPosition", angle |-> 0, speed |-> 0, acceleration |-> 0,
            slaveId |-> sl] : sl \in SlaveIds }

NoCall == [op |-> "none", angle |-> 0, speed |-> 0, acceleration |-> 0, slaveId |-> 0]

Pending == [kind |-> "pending"]

Rejected == [kind |-> "rejected"]

Resolved(v) == [kind |-> "resolved", value |-> v]

NoAnswer == [kind |-> "none"]

\* x & 0xffff
Low16(x) == x % 65536

\* the high half of the magnitude
High16OfMagnitude(x) == (Abs(x) \div 65536) % 65536

\* (x >> 16) & 0xffff
High16(x) == FloorDiv(x, 65536) % 65536

\* lines 72-76
Registers(call) ==
    << Low16(call.acceleration), Low16(call.speed),
       High16(angleToPulses(call.angle)), Low16(angleToPulses(call.angle)) >>

\* the answers of the device to writeRegisters
WriteAnswers ==
    { [kind |-> "write", address |-> ad, length |-> n] :
        ad \in {MOVE_ABS_ADDR, 0}, n \in {4, 2} }

\* the answers of the device to readInputRegisters: a buffer of 2 * POS_QTY
\* bytes holding a pulse count, a buffer of another length, or no buffer
ReadAnswers ==
    { [kind |-> "read", bytes |-> 2 * POS_QTY, pulses |-> q] : q \in {-30000, 0, 15001} }
    \cup { [kind |-> "read", bytes |-> 2, pulses |-> 0],
           [kind |-> "read", bytes |-> 0, pulses |-> 0] }

\* a failed connection settles the call with a value
ConnectFailureAsValue(call) ==
    Resolved(IF call.op = "moveToAngle" THEN FALSE ELSE Null)

\* lines 40, 67, 23-31: `await initializeClient()` is outside every try
\* block: when connectRTUBuffered rejects, so does the call
ConnectFailure(call) == Rejected

\* any answer is a success
WriteOkAlways(resp) == TRUE

\* line 78
WriteOk(resp) == resp.address = MOVE_ABS_ADDR /\ resp.length = 4

\* lines 46-52
ReadValue(resp) ==
    IF resp.bytes # 4 THEN Null
    ELSE [angle |-> pulsesToAngle(resp.pulses), pulses |-> resp.pulses]

InitDriver ==
    /\ client = "null"
    /\ isInitialized = FALSE
    /\ clientId = 0
    /\ drvCall = NoCall
    /\ drvPc = "idle"
    /\ drvRegs = <<>>
    /\ drvResp = NoAnswer
    /\ drvOut = Pending
    /\ nCalls = 0

\* lines 71-77, 41-44: the id is set and the request sent
SendRequest(call) ==
    /\ drvPc' = "io"
    /\ clientId' = call.slaveId
    /\ drvRegs' = IF call.op = "moveToAngle" THEN Registers(call) ELSE drvRegs

\* readPosition / moveToAngle, up to the first await
Call ==
    /\ drvPc = "idle"
    /\ nCalls < MaxCalls
    /\ \E call \in DrvCalls :
          /\ drvCall' = call
          /\ IF ~isInitialized
                THEN /\ drvPc' = "connecting"
                     /\ UNCHANGED <<clientId, drvRegs, drvOut>>
             ELSE IF client = "null"
                THEN /\ drvOut' = Resolved(IF call.op = "moveToAngle" THEN FALSE ELSE Null)
                     /\ drvPc' = "idle"
                     /\ UNCHANGED <<clientId, drvRegs>>
             ELSE /\ SendRequest(call)
                  /\ drvOut' = Pending
    /\ nCalls' = nCalls + 1
    /\ drvResp' = NoAnswer
    /\ UNCHANGED <<client, isInitialized>>

\* lines 23-31: the port opens, and the call goes on to its request
Connected ==
    /\ drvPc = "connecting"
    /\ client' = "open"
    /\ isInitialized' = TRUE
    /\ SendRequest(drvCall)
    /\ drvOut' = Pending
    /\ UNCHANGED <<drvCall, drvResp, nCalls>>

\* lines 26, 40, 67: connectRTUBuffered rejects
ConnectFails ==
    /\ drvPc = "connecting"
    /\ drvOut' = ConnectFailure(drvCall)
    /\ drvPc' = "idle"
    /\ UNCHANGED <<client, isInitialized, clientId, drvCall, drvRegs, drvResp, nCalls>>

\* lines 77-78, 82-84: the device answers the write
WriteAnswered ==
    /\ drvPc = "io"
    /\ drvCall.op = "moveToAngle"
    /\ \E resp \in WriteAnswers :
          /\ drvResp' = resp
          /\ drvOut' = Resolved(WriteOk(resp))
    /\ clientId' = DEFAULT_TARGET_SLAVE_ID
    /\ drvPc' = "idle"
    /\ UNCHANGED <<client, isInitialized, drvCall, drvRegs, nCalls>>

\* lines 44-52, 55-57: the device answers the read
ReadAnswered ==
    /\ drvPc = "io"
    /\ drvCall.op = "readPosition"
    /\ \E resp \in ReadAnswers :
          /\ drvResp' = resp
          /\ drvOut' = Resolved(ReadValue(resp))
    /\ clientId' = DEFAULT_TARGET_SLAVE_ID
    /\ drvPc' = "idle"
    /\ UNCHANGED <<client, isInitialized, drvCall, drvRegs, nCalls>>

\* lines 53-54, 79-80: the request throws (a timeout, a CRC error)
RequestThrows ==
    /\ drvPc = "io"
    /\ drvResp' = [kind |-> "thrown"]
    /\ drvOut' = Resolved(IF drvCall.op = "moveToAngle" THEN FALSE ELSE Null)
    /\ clientId' = DEFAULT_TARGET_SLAVE_ID
    /\ drvPc' = "idle"
    /\ UNCHANGED <<client, isInitialized, drvCall, drvRegs, nCalls>>

\* lines 88-96
Cleanup ==
    /\ drvPc = "idle"
    /\ client = "open"
    /\ client' = "null"
    /\ isInitialized' = FALSE
    /\ UNCHANGED <<clientId, drvCall, drvPc, drvRegs, drvResp, drvOut, nCalls>>

IdleDriver ==
    /\ client = "null"
    /\ isInitialized = FALSE
    /\ clientId = 0
    /\ drvCall = NoCall
    /\ drvPc = "off"
    /\ drvRegs = <<>>
    /\ drvResp = NoAnswer
    /\ drvOut = Pending
    /\ nCalls = MaxCalls

----------------------------------------------------------------------------
(* motorControl.ts: the position registers moveToAngle writes (lines 68,  *)
(* 74-76), read as readPosition reads the buffer of a position (lines      *)
(* 43-48).                                                                 *)

\* the pulse counts of 180 degrees
MaxPulses == angleToPulses(180 * AngleUnit)

\* an angle for every pulse count, and angles beyond the clamp
RegAngles ==
    { pulsesToAngle(q) : q \in -MaxPulses .. MaxPulses }
    \cup { -200 * AngleUnit, 200 * AngleUnit }

\* the bytes of two 16-bit registers, high byte first
RegisterBytes(regs) ==
    << regs[1] \div 256, regs[1] % 256, regs[2] \div 256, regs[2] % 256 >>

\* the first byte as a signed number
FirstByte(b) == IF b >= 128 THEN b - 256 ELSE b

\* buf.readInt32BE(0)
readInt32BE(buf) ==
    FirstByte(buf[1]) * 16777216 + buf[2] * 65536 + buf[3] * 256 + buf[4]

InitReg ==
    /\ rtAngle \in RegAngles
    /\ rtPc = "entry"
    /\ rtPulses = 0
    /\ rtRegs = <<0, 0>>
    /\ rtRead = 0

\* lines 68, 74-76
WriteRegisters ==
    /\ rtPc = "entry"
    /\ rtPulses' = angleToPulses(rtAngle)
    /\ rtRegs' = <<High16(rtPulses'), Low16(rtPulses')>>
    /\ rtPc' = "written"
    /\ UNCHANGED <<rtAngle, rtRead>>

\* lines 43-48, of a buffer that holds the two registers
ReadBack ==
    /\ rtPc = "written"
    /\ rtRead' = readInt32BE(RegisterBytes(rtRegs))
    /\ rtPc' = "read"
    /\ UNCHANGED <<rtAngle, rtPulses, rtRegs>>

IdleReg ==
    /\ rtAngle = 0
    /\ rtPc = "off"
    /\ rtPulses = 0
    /\ rtRegs = <<0, 0>>
    /\ rtRead = 0

----------------------------------------------------------------------------
(* usePersistedState (src/src/hooks/usePersistedState.ts, lines 36-69).    *)
(* React runs the effects of a render, in the order of their declaration,  *)
(* after the render, and before it handles a later event; the state set by *)
(* an effect or by update is in force from the next render.                *)

\* a behaviour makes at most MaxHookUpdates calls of update
MaxHookUpdates == 2

\* the values of T explored; the first is defaultValue
HookValues == {0, 30, -45}

defaultValue == 0

Absent == [kind |-> "absent", v |-> 0]

\* a stored string JSON.parse throws on
Corrupt == [kind |-> "corrupt", v |-> 0]

\* JSON.stringify(v), stored
Stored(v) == [kind |-> "json", v |-> v]

\* localStorage works, throws on every access (access denied), or throws on
\* setItem only (quota exceeded)
Accesses == {"ok", "denied", "full"}

\* hydrated is not consulted
WriteGuardNone(hydrated) == TRUE

\* line 56: the write effect returns unless hydrated
WriteGuard(hydrated) == hydrated

InitHook ==
    /\ hkStore \in {Absent, Corrupt} \cup { Stored(v) : v \in HookValues }
    /\ hkInitial = hkStore
    /\ hkAccess \in Accesses
    /\ hkValue = defaultValue
    /\ hkHydrated = FALSE
    /\ hkQueued = [value |-> defaultValue, hydrated |-> FALSE]
    /\ hkEffects = <<"read", "write">>
    /\ hkLog = <<>>
    /\ hkUpdates = 0

\* lines 42-52: the effect of [key]
ReadEffect ==
    /\ hkEffects # <<>>
    /\ Head(hkEffects) = "read"
    /\ hkLog' = Append(hkLog, "getItem")
    /\ hkQueued' =
          [value |-> IF hkAccess # "denied" /\ hkStore.kind = "json"
                        THEN hkStore.v ELSE hkQueued.value,
           hydrated |-> TRUE]
    /\ hkEffects' = Tail(hkEffects)
    /\ UNCHANGED <<hkStore, hkInitial, hkAccess, hkValue, hkHydrated, hkUpdates>>

\* lines 55-62: the effect of [key, value, hydrated]
WriteEffect ==
    /\ hkEffects # <<>>
    /\ Head(hkEffects) = "write"
    /\ IF WriteGuard(hkHydrated)
          THEN /\ hkLog' = Append(hkLog, "setItem")
               /\ hkStore' = IF hkAccess = "ok" THEN Stored(hkValue) ELSE hkStore
          ELSE UNCHANGED <<hkLog, hkStore>>
    /\ hkEffects' = Tail(hkEffects)
    /\ UNCHANGED <<hkInitial, hkAccess, hkValue, hkHydrated, hkQueued, hkUpdates>>

\* the component renders again with the state that was set, and the write
\* effect is due, one of its dependencies having changed
Render ==
    /\ hkEffects = <<>>
    /\ hkQueued # [value |-> hkValue, hydrated |-> hkHydrated]
    /\ hkValue' = hkQueued.value
    /\ hkHydrated' = hkQueued.hydrated
    /\ hkEffects' = <<"write">>
    /\ UNCHANGED <<hkStore, hkInitial, hkAccess, hkQueued, hkLog, hkUpdates>>

\* lines 64-66: update(next)
HookUpdate ==
    /\ hkEffects = <<>>
    /\ hkUpdates < MaxHookUpdates
    /\ \E next \in HookValues : hkQueued' = [hkQueued EXCEPT !.value = next]
    /\ hkUpdates' = hkUpdates + 1
    /\ UNCHANGED <<hkStore, hkInitial, hkAccess, hkValue, hkHydrated, hkEffects, hkLog>>

IdleHook ==
    /\ hkStore = Absent
    /\ hkInitial = Absent
    /\ hkAccess = "ok"
    /\ hkValue = defaultValue
    /\ hkHydrated = FALSE
    /\ hkQueued = [value |-> defaultValue, hydrated |-> FALSE]
    /\ hkEffects = <<>>
    /\ hkLog = <<>>
    /\ hkUpdates = MaxHookUpdates

----------------------------------------------------------------------------
(* Home (src/src/app/api/move/route.ts, lines 97-568).  angle1Deg ..       *)
(* angle3Deg are whole degrees; the animated angles and the angles passed  *)
(* to RobotArm are in steps of 1 / UiUnit degree, which holds every value  *)
(* of the easing at the quarters of the tween.  An event handler runs with *)
(* the render and the effect it causes.                                    *)

UiUnit == 16

\* t = 1, in quarters of the duration
tEnd == 4

\* a behaviour has at most MaxUiEvents user and network events
MaxUiEvents == 2

Goals == 1 .. 4

NoAngles == [known |-> FALSE]

\* angles of a response of /api/ik
IkAngles ==
    { [known |-> TRUE, baseYawDeg |-> 200, shoulderPitchDeg |-> -120,
       forearmPitchDeg |-> 150],
      [known |-> TRUE, baseYawDeg |-> -170, shoulderPitchDeg |-> 90,
       forearmPitchDeg |-> -135] }

\* values stored under arm-angle1-deg .. arm-angle3-deg
PersistedAngles == { <<0, 0, 0>>, <<350, 120, -200>>, <<-90, -90, 135>> }

\* values of the three sliders
SliderValues == << {-180, 180}, {-90, 90}, {-135, 135} >>

\* a % m of JavaScript, m > 0: the sign of the result is that of a
JsMod(a, m) == IF a >= 0 THEN a % m ELSE 0 - ((0 - a) % m)

\* lines 260-264
normalizeDeltaDeg(delta) ==
    LET d == JsMod(delta + 180 * UiUnit, 360 * UiUnit) - 180 * UiUnit
    IN IF d < -180 * UiUnit THEN d + 360 * UiUnit ELSE d

\* lines 266-268, of t = q / tEnd, in sixteenths
easeInOutCubic(q) ==
    IF 2 * q < tEnd THEN q * q * q
    ELSE 16 - ((8 - 2 * q) * (8 - 2 * q) * (8 - 2 * q)) \div 8

\* Math.min(Math.max(x, -limit), limit)
Limit(x, limit) == Min2(Max2(x, 0 - limit), limit)

\* the animated angle as it is
ArmAngleRaw(x, limit) == x

\* lines 544-545: the angle passed to RobotArm
ArmAngle(x, limit) == Min2(Max2(x, 0 - limit * UiUnit), limit * UiUnit)

\* lines 542-547
Rendered(a) == << a[1], ArmAngle(a[2], 90), ArmAngle(a[3], 135) >>

\* lines 276-280: to
TweenTarget(deg) ==
    << deg[1] * UiUnit, Limit(deg[2], 90) * UiUnit, Limit(deg[3], 135) * UiUnit >>

\* lines 200-202, 229-231: the angles set from the angles of a solve
Commanded(a) ==
    << a.baseYawDeg, Limit(a.shoulderPitchDeg, 90), Limit(a.forearmPitchDeg, 135) >>

\* setAngle1Deg .. setAngle3Deg, the render, and the effect of
\* [angle1Deg, angle2Deg, angle3Deg] (lines 270-303) if one of them changed
SetAngles(deg) ==
    /\ angleDeg' = deg
    /\ IF deg # angleDeg
          THEN /\ fromRef' = anim
               /\ toRef' = TweenTarget(deg)
               /\ raf' = TRUE
               /\ tq' = 0
          ELSE UNCHANGED <<fromRef, toRef, raf, tq>>
    /\ arm' = Rendered(anim)
    /\ UNCHANGED anim

\* lines 115-130: the default positions of the four targets
DefaultSpherePos == << <<1, 3, -1>>, <<-2, 3, 2>>, <<2, 2, 2>>, <<-2, 2, -2>> >>

\* positions a target is released at
DragPositions == { <<0, 9, 0>> }

\* no position
NoPosition == <<>>

InitHome ==
    /\ angleDeg = <<0, 0, 0>>
    /\ anim = <<0, 0, 0>>
    /\ fromRef = <<0, 0, 0>>
    /\ toRef = <<0, 0, 0>>
    /\ raf = TRUE
    /\ tq = 0
    /\ lastG = [g \in Goals |-> NoAngles]
    /\ lastGTarget = [g \in Goals |-> NoPosition]
    /\ spherePos = DefaultSpherePos
    /\ activeTarget = 1
    /\ ikInFlight = {}
    /\ ikIssued = 0
    /\ ikApplied = 0
    /\ uiHydrated = FALSE
    /\ arm = Rendered(<<0, 0, 0>>)
    /\ nEvents = 0

\* the variables of the requests and of the targets
ikUiVars == <<ikInFlight, ikIssued, ikApplied, spherePos, lastGTarget>>

\* lines 132-134: the persisted angles are read after mount
Hydrate ==
    /\ ~uiHydrated
    /\ \E stored \in PersistedAngles : SetAngles(stored)
    /\ uiHydrated' = TRUE
    /\ UNCHANGED <<lastG, activeTarget, ikUiVars, nEvents>>

\* lines 353, 367, 381: onChange of a slider
Slider ==
    /\ uiHydrated
    /\ nEvents < MaxUiEvents
    /\ \E j \in 1 .. 3 : \E v \in SliderValues[j] :
          SetAngles([angleDeg EXCEPT ![j] = v])
    /\ nEvents' = nEvents + 1
    /\ UNCHANGED <<lastG, activeTarget, ikUiVars, uiHydrated>>

\* an abort that does not reach the request
AbortIgnored(req) == req

\* line 183: controller.abort() rejects the promise of a fetch that has not
\* settled
Abort(req) == [req EXCEPT !.aborted = TRUE]

\* lines 181-192: runIk(pos, goal) aborts the request of the last call and
\* sends a new one
RunIk(pos, goal) ==
    /\ ikInFlight' =
          { IF req.id = ikIssued THEN Abort(req) ELSE req : req \in ikInFlight }
          \cup { [id |-> ikIssued + 1, goal |-> goal, pos |-> pos,
                  aborted |-> FALSE] }
    /\ ikIssued' = ikIssued + 1

\* lines 250-258, 225-234: activateGoal(goal)
ActivateGoal ==
    /\ uiHydrated
    /\ nEvents < MaxUiEvents
    /\ \E goal \in Goals :
          /\ activeTarget' = goal
          /\ IF lastG[goal].known
                THEN /\ SetAngles(Commanded(lastG[goal]))
                     /\ UNCHANGED <<ikInFlight, ikIssued>>
                ELSE /\ RunIk(spherePos[goal], goal)
                     /\ arm' = Rendered(anim)
                     /\ UNCHANGED <<angleDeg, anim, fromRef, toRef, raf, tq>>
    /\ nEvents' = nEvents + 1
    /\ UNCHANGED <<lastG, lastGTarget, spherePos, ikApplied, uiHydrated>>

\* lines 403-411: the active target is released after a drag,
\* setSpherePos(pos) and runIk(pos, goal)
MouseUp ==
    /\ uiHydrated
    /\ nEvents < MaxUiEvents
    /\ \E pos \in DragPositions :
          /\ spherePos' = [spherePos EXCEPT ![activeTarget] = pos]
          /\ RunIk(pos, activeTarget)
    /\ arm' = Rendered(anim)
    /\ nEvents' = nEvents + 1
    /\ UNCHANGED <<angleDeg, anim, fromRef, toRef, raf, tq, lastG, lastGTarget,
                   ikApplied, activeTarget, uiHydrated>>

\* lines 193-218: the response of /api/ik to a request that was not aborted
IkResponse ==
    /\ \E req \in ikInFlight :
          /\ ~req.aborted
          /\ \E a \in IkAngles :
                /\ SetAngles(Commanded(a))
                /\ lastG' = [lastG EXCEPT ![req.goal] = a]
          /\ lastGTarget' = [lastGTarget EXCEPT ![req.goal] = req.pos]
          /\ ikApplied' = req.id
          /\ ikInFlight' = ikInFlight \ {req}
    /\ UNCHANGED <<ikIssued, spherePos, activeTarget, uiHydrated, nEvents>>

\* lines 220-222: the request was aborted or fails, or its response has no
\* angles
IkError ==
    /\ \E req \in ikInFlight : ikInFlight' = ikInFlight \ {req}
    /\ UNCHANGED <<angleDeg, anim, fromRef, toRef, raf, tq, lastG, lastGTarget,
                   ikIssued, ikApplied, spherePos, activeTarget, uiHydrated,
                   arm, nEvents>>

\* lines 285-296: step(now), at a later quarter of the tween
Frame ==
    /\ raf
    /\ \E q \in tq + 1 .. tEnd :
          /\ anim' = [j \in 1 .. 3 |->
                        fromRef[j] +
                        RDiv(normalizeDeltaDeg(toRef[j] - fromRef[j]) * easeInOutCubic(q), 16)]
          /\ tq' = q
          /\ raf' = (q < tEnd)
    /\ arm' = Rendered(anim')
    /\ UNCHANGED <<angleDeg, fromRef, toRef, lastG, activeTarget, ikUiVars,
                   uiHydrated, nEvents>>

IdleHome ==
    /\ angleDeg = <<0, 0, 0>>
    /\ anim = <<0, 0, 0>>
    /\ fromRef = <<0, 0, 0>>
    /\ toRef = <<0, 0, 0>>
    /\ raf = FALSE
    /\ tq = 0
    /\ lastG = [g \in Goals |-> NoAngles]
    /\ lastGTarget = [g \in Goals |-> NoPosition]
    /\ spherePos = DefaultSpherePos
    /\ activeTarget = 0
    /\ ikInFlight = {}
    /\ ikIssued = 0
    /\ ikApplied = 0
    /\ uiHydrated = FALSE
    /\ arm = <<0, 0, 0>>
    /\ nEvents = MaxUiEvents

----------------------------------------------------------------------------
(* Specifications.  A behaviour is the use of one of the three entry       *)
(* points: a call of computeIkAnglesFabrik, a call of                      *)
(* extractYawPitchDegrees, or the life of one createRobotArmIkSolver.      *)

IdleFabrik ==
    /\ target = Origin
    /\ yawIn = 0
    /\ cfg = Config(Origin, Origin, 0, 0, 0)
    /\ elbow = Origin
    /\ end = Origin
    /\ rawElbow = Origin
    /\ i = 0
    /\ err = 0
    /\ pc = "off"
    /\ term = "Idle"
    /\ result = NoResult
    /\ nonFinite = FALSE

IdleExtract ==
    /\ bones = <<>>
    /\ fk = NotPosed
    /\ angles = NoResult
    /\ xpc = "off"

IdleSolver ==
    /\ chain = -1
    /\ tgt = Origin
    /\ seed = -1
    /\ lastUpdate = -1
    /\ prevUpdate = -1
    /\ got = -1
    /\ nUpdates = MaxUpdates

IdleWeb == IdleIk /\ IdleMove /\ IdleConv /\ IdleDriver /\ IdleReg /\ IdleHook /\ IdleHome

Init ==
    /\ \/ InitFabrik /\ IdleExtract /\ IdleSolver
       \/ IdleFabrik /\ InitExtract /\ IdleSolver
       \/ IdleFabrik /\ IdleExtract /\ InitSolver
    /\ IdleWeb

\* a step of computeIkAnglesFabrik
FabrikNext ==
    /\ \/ Seed
       \/ BackwardPass
       \/ ForwardPass
       \/ LoopEnd
       \/ Extract
    /\ UNCHANGED <<extractVars, solverVars, webVars>>

Next ==
    \/ FabrikNext
    \/ ExtractAngles /\ UNCHANGED <<fabrikVars, solverVars, webVars>>
    \/ Update /\ UNCHANGED <<fabrikVars, extractVars, webVars>>
    \/ GetResult /\ UNCHANGED <<fabrikVars, extractVars, webVars>>

Spec == Init /\ [][Next]_vars

(* The web layer.  A behaviour is the handling of one request by one of    *)
(* the routes.                                                             *)

IdleCore == IdleFabrik /\ IdleExtract /\ IdleSolver

coreVars == <<fabrikVars, extractVars, solverVars>>

WebInit ==
    /\ IdleCore
    /\ \/ InitIk /\ IdleMove /\ IdleConv /\ IdleDriver
       \/ IdleIk /\ InitMove /\ IdleConv /\ IdleDriver
       \/ IdleIk /\ IdleMove /\ InitConv /\ IdleDriver
       \/ IdleIk /\ IdleMove /\ IdleConv /\ InitDriver
    /\ IdleReg
    /\ IdleHook
    /\ IdleHome

\* the variables a step of each part leaves alone
ikRest == <<coreVars, moveVars, convVars, driverVars, hookVars, homeVars,
           regVars>>
moveRest == <<coreVars, ikVars, convVars, driverVars, hookVars, homeVars,
             regVars>>
convRest == <<coreVars, ikVars, moveVars, driverVars, hookVars, homeVars,
             regVars>>
driverRest == <<coreVars, ikVars, moveVars, convVars, hookVars, homeVars,
               regVars>>
hookRest == <<coreVars, ikVars, moveVars, convVars, driverVars, homeVars,
             regVars>>
homeRest == <<coreVars, ikVars, moveVars, convVars, driverVars, hookVars,
             regVars>>
regRest == <<coreVars, ikVars, moveVars, convVars, driverVars, hookVars,
            homeVars>>

WebNext ==
    \/ IkPost /\ UNCHANGED ikRest
    \/ ProcExit /\ UNCHANGED ikRest
    \/ ProcError /\ UNCHANGED ikRest
    \/ ProcClose /\ UNCHANGED ikRest
    \/ TimerFires /\ UNCHANGED ikRest
    \/ MovePost /\ UNCHANGED moveRest
    \/ MoveAnswered /\ UNCHANGED moveRest
    \/ MoveFetchFails /\ UNCHANGED moveRest
    \/ AngleToPulses /\ UNCHANGED convRest
    \/ PulsesToAngle /\ UNCHANGED convRest
    \/ Call /\ UNCHANGED driverRest
    \/ Connected /\ UNCHANGED driverRest
    \/ ConnectFails /\ UNCHANGED driverRest
    \/ WriteAnswered /\ UNCHANGED driverRest
    \/ ReadAnswered /\ UNCHANGED driverRest
    \/ RequestThrows /\ UNCHANGED driverRest
    \/ Cleanup /\ UNCHANGED driverRest

WebSpec == WebInit /\ [][WebNext]_vars

(* The handling of one POST /api/ik request.  Node runs a timer that is   *)
(* due, and the streams of an ended process are closed: each is weakly     *)
(* fair.  A running solver need never end by itself.                       *)

IkInit ==
    IdleCore /\ InitIk /\ IdleMove /\ IdleConv /\ IdleDriver /\ IdleReg /\ IdleHook /\ IdleHome

IkNext ==
    \/ IkPost /\ UNCHANGED ikRest
    \/ ProcExit /\ UNCHANGED ikRest
    \/ ProcError /\ UNCHANGED ikRest
    \/ ProcClose /\ UNCHANGED ikRest
    \/ TimerFires /\ UNCHANGED ikRest

IkSpec ==
    /\ IkInit
    /\ [][IkNext]_vars
    /\ WF_vars(TimerFires /\ UNCHANGED ikRest)
    /\ WF_vars(ProcClose /\ UNCHANGED ikRest)

(* The registers of one move, written and read back.                      *)

RegInit ==
    IdleCore /\ IdleIk /\ IdleMove /\ IdleConv /\ IdleDriver /\ InitReg /\ IdleHook /\ IdleHome

RegNext ==
    \/ WriteRegisters /\ UNCHANGED regRest
    \/ ReadBack /\ UNCHANGED regRest

RegSpec == RegInit /\ [][RegNext]_vars

(* The life of one usePersistedState hook.  React runs a pending effect    *)
(* and a pending render: each is weakly fair.                              *)

HookInit ==
    IdleCore /\ IdleIk /\ IdleMove /\ IdleConv /\ IdleDriver /\ IdleReg /\ InitHook /\ IdleHome

HookNext ==
    \/ ReadEffect /\ UNCHANGED hookRest
    \/ WriteEffect /\ UNCHANGED hookRest
    \/ Render /\ UNCHANGED hookRest
    \/ HookUpdate /\ UNCHANGED hookRest

HookSpec ==
    /\ HookInit
    /\ [][HookNext]_vars
    /\ WF_vars(ReadEffect /\ UNCHANGED hookRest)
    /\ WF_vars(WriteEffect /\ UNCHANGED hookRest)
    /\ WF_vars(Render /\ UNCHANGED hookRest)

(* The life of one Home page.                                              *)

HomeInit ==
    IdleCore /\ IdleIk /\ IdleMove /\ IdleConv /\ IdleDriver /\ IdleReg /\ IdleHook /\ InitHome

HomeNext ==
    \/ Hydrate /\ UNCHANGED homeRest
    \/ Slider /\ UNCHANGED homeRest
    \/ ActivateGoal /\ UNCHANGED homeRest
    \/ MouseUp /\ UNCHANGED homeRest
    \/ IkResponse /\ UNCHANGED homeRest
    \/ IkError /\ UNCHANGED homeRest
    \/ Frame /\ UNCHANGED homeRest

HomeSpec == HomeInit /\ [][HomeNext]_vars

----------------------------------------------------------------------------
(* Properties *)

\* a length agrees with another within LenTol
LenTol == Scale \div 500

\* an iteration of the loop has completed, or the loop has been left
AfterIteration == (pc = "loop" /\ i >= 1) \/ pc \in {"extract", "done"}

\* the horizontal distance of p from the base's vertical axis
RingDistance(p, c) ==
    Hypot(Vec(p[1] - c.basePosition[1], 0, p[3] - c.basePosition[3]))

OnRing(p, c) ==
    /\ p[2] = ringY(c)
    /\ Abs(RingDistance(p, c) - ringR(c)) <= LenTol

\* C1: after every iteration of the solve loop, and in the pose the angles
\* are extracted from, the distance from elbow to end is endEffectorLength.
C1_LengthInvariance ==
    AfterIteration => Abs(Hypot(Sub(end, elbow)) - link2(cfg)) <= LenTol

\* C2: each time the forward pass recomputes the end point, the elbow->end
\* direction of the pose it accepts has a pitch within
\* [pitchMinDeg, pitchMaxDeg].
C2_PitchWithinLimitsWhileSolving ==
    AfterIteration =>
        /\ PitchOf(elbow, end, cfg) >= cfg.pitchMinDeg
        /\ PitchOf(elbow, end, cfg) <= cfg.pitchMaxDeg

\* C3: after the backward pass and after the forward pass of every
\* iteration the elbow is on the ring, also when the unprojected elbow is
\* on the base's vertical axis, and no step changes the base position.
C3_ElbowOnRing ==
    /\ [](pc \in {"forward", "loop", "extract", "done"} => OnRing(elbow, cfg))
    /\ [][cfg'.basePosition = cfg.basePosition]_vars

\* the backward pass has put the unprojected elbow on the base's vertical
\* axis, and the projected elbow is on the ring
C3_Witness ==
    /\ pc = "forward"
    /\ RingDistance(rawElbow, cfg) = 0
    /\ OnRing(elbow, cfg)

\* C4: the loop is left after at most maxIter iterations (every pass
\* through the loop that does not converge counts as one), Converged or
\* IterationLimitReached, and in both cases the return value is a yaw and
\* a pitch.
C4_Terminates ==
    /\ [](i <= maxIter)
    /\ [][pc = "forward" /\ pc' = "loop" => i' = i + 1]_vars
    /\ [][pc = "loop" /\ i = maxIter => pc' = "extract"]_vars
    /\ [](pc \in {"extract", "done"} =>
            \/ term = "Converged" /\ Converged(err)
            \/ term = "IterationLimitReached" /\ i = maxIter)
    /\ [](pc = "done" => DOMAIN result = {"yawDeg", "pitchDeg"})

\* the iteration cap was reached and the angles were returned
C4_Witness ==
    /\ pc = "done"
    /\ term = "IterationLimitReached"
    /\ i = maxIter
    /\ ~Converged(err)

\* C5: the loop stops at the first iteration whose residual is less than
\* or equal to the tolerance: it goes on only after a residual above the
\* tolerance, and a residual equal to the tolerance stops it.
C5_StopsAtTolerance ==
    /\ pc = "loop" /\ i >= 1 => err > tol
    /\ term = "Converged" => err <= tol

\* C6: a solve that ends by IterationLimitReached returns the residual
\* distance or a status with its pose, so that the caller can tell it from
\* a converged solve.
C6_TerminalStateObservable ==
    pc = "done" /\ term = "IterationLimitReached" =>
        "residual" \in DOMAIN result \/ "status" \in DOMAIN result

\* the hinge limits of the ankle and of the forearm (cwDeg = acwDeg)
AnkleHingeDeg == 90

ForearmHingeDeg == 90

\* C7: every pitch-type angle reported lies within its joint's limits:
\* computeIkAnglesFabrik's pitchDeg in [pitchMinDeg, pitchMaxDeg],
\* extractYawPitchDegrees' pitchDeg in [-90, 90] and its forearmDeg within
\* the forearm's limit.
C7_ReportedAnglesWithinLimits ==
    /\ pc = "done" =>
          /\ result.pitchDeg >= cfg.pitchMinDeg
          /\ result.pitchDeg <= cfg.pitchMaxDeg
    /\ xpc = "done" =>
          /\ Abs(angles.pitchDeg) <= AnkleHingeDeg
          /\ "forearmDeg" \in DOMAIN angles =>
                Abs(angles.forearmDeg) <= ForearmHingeDeg

\* five bones whose ankle and forearm are both beyond their limits
C7_Witness ==
    /\ xpc = "done"
    /\ Len(bones) = 5
    /\ Abs(HingeAngle(BoneDir(bones[3]), BoneDir(bones[2]))) > AnkleHingeDeg
    /\ Abs(HingeAngle(BoneDir(bones[5]), BoneDir(bones[4]))) > ForearmHingeDeg
    /\ "forearmDeg" \in DOMAIN angles

C9_AngleRoundTrip ==
    xpc = "done" /\ fk.posed =>
        /\ angles.yawDeg = fk.yaw
        /\ angles.pitchDeg = fk.pitch

\* C10: no division by zero happens and the returned angles are finite,
\* for every target, the base anchor, the elbow and points of the base's
\* vertical axis among them.
C10_FiniteAngles ==
    /\ ~nonFinite
    /\ pc = "done" =>
          /\ result.yawDeg \in -180 .. 180
          /\ result.pitchDeg \in -180 .. 180

\* the target is the seeded elbow itself, and the angles were returned
C10_Witness ==
    /\ pc = "done"
    /\ target = SeedElbow(cfg, yawIn)
    /\ ~nonFinite

\* C11: no solve runs on a chain with a segment of non-positive length:
\* computeIkAnglesFabrik with endEffectorLength <= 0 is rejected before it
\* seeds, iterates or returns angles.
C11_RejectsMalformedChain ==
    cfg.endEffectorLength <= 0 => pc \in {"off", "entry"}

\* C12: the payload handed to the solver carries the request's target and
\* origin unchanged, the request's fractions (the default [0.25, 0.5, 0.75]
\* only when the request has none) and the request's ctrajSteps.
C12_RequestedWaypointsForwarded ==
    ikPayload.sent =>
        /\ ikPayload.target = ikBody.target
        /\ ikPayload.origin = ikBody.origin
        /\ ikPayload.fractions =
              IF ikBody.fractions = Undefined THEN Arr(DefaultFractions)
              ELSE ikBody.fractions
        /\ ikBody.ctrajSteps # Undefined =>
              ikPayload.ctrajSteps = ikBody.ctrajSteps

\* the legacy field of axis k of the request is a number
LegacyGiven(k) == mvBody.angles.t = "object" /\ IsNumber(mvBody.angles.f[k])

C14_ValidatesBeforeForwarding ==
    /\ (mvBody.parsed /\ mvPc \notin {"off", "entry"}
          /\ \A k \in Axes : ~IsNumber(mvBody.flat[k]) /\ ~LegacyGiven(k)) =>
          /\ mvResp = [status |-> 400, error |-> "No parameters provided"]
          /\ mvFetches = 0
    /\ \A k \in DOMAIN mvSent : IsNumber(mvBody.flat[k]) \/ LegacyGiven(k)
    /\ mvFetches > 0 => DOMAIN mvSent # {}

\* a request whose fields are all strings was refused
C14_Witness ==
    /\ mvPc = "done"
    /\ mvResp.status = 400
    /\ mvBody.angles.t = "object"
    /\ \A k \in Axes : mvBody.flat[k] = Str /\ mvBody.angles.f[k] = Str

\* C15: a call of moveToAngle settles with true or false, true exactly
\* when the write's answer echoes address 254 and length 4; a call of
\* readPosition settles with {angle, pulses} or null; no call rejects.
C15_OutcomesAreValues ==
    /\ drvOut # Rejected
    /\ (drvPc = "idle" /\ drvCall.op = "moveToAngle") =>
          /\ drvOut.kind = "resolved"
          /\ drvOut.value \in BOOLEAN
          /\ drvOut.value <=>
                (drvResp.kind = "write" /\ drvResp.address = 254
                   /\ drvResp.length = 4)
    /\ (drvPc = "idle" /\ drvCall.op = "readPosition") =>
          /\ drvOut.kind = "resolved"
          /\ drvOut.value = Null \/ DOMAIN drvOut.value = {"angle", "pulses"}

\* half a pulse, in steps of 1 / AngleUnit degree, times 2 * 1000
HalfPulse2000 == 3 * AngleUnit

\* C16: pulsesToAngle(p) is p / PULSES_PER_DEGREE; the pulses of an angle
\* never exceed those of 180 degrees (180 * 1000 / 3) in magnitude, they
\* are the same as the pulses of the angle clamped to [-180, 180], and the
\* angle of those pulses is within half a pulse (3 / 2000 degree) of the
\* clamped angle.
C16_LinearScaleWithClamp ==
    cvPc = "done" =>
        /\ cvAngle * 1000 = cvPulses * 3 * AngleUnit
        /\ cvIn.kind = "angle" =>
              LET clamped == IF cvIn.x > 180 * AngleUnit THEN 180 * AngleUnit
                             ELSE IF cvIn.x < -180 * AngleUnit THEN -180 * AngleUnit
                             ELSE cvIn.x
              IN /\ Abs(cvPulses) <= 60 * 1000
                 /\ 2 * 1000 * Abs(cvAngle - clamped) <= HalfPulse2000

\* an angle within the range and exactly half a pulse from the next pulse
\* has been converted
C16_Witness ==
    /\ cvPc = "done"
    /\ cvIn.kind = "angle"
    /\ Abs(cvIn.x) < 180 * AngleUnit
    /\ Abs(cvAngle - cvIn.x) * 2 * 1000 = HalfPulse2000

\* C17: angleToPulses(180) = 30000 and pulsesToAngle(30000) = 180.
C17_ThirtyThousandPulsesAre180Degrees ==
    cvPc = "done" =>
        /\ (cvIn.kind = "angle" /\ cvIn.x = 180 * AngleUnit) => cvPulses = 30000
        /\ (cvIn.kind = "pulses" /\ cvIn.x = 30000) => cvAngle = 180 * AngleUnit

\* no effect is pending and no render is due
Quiescent ==
    hkEffects = <<>> /\ hkQueued = [value |-> hkValue, hydrated |-> hkHydrated]

\* every setItem so far came after a getItem
ReadBeforeWrite ==
    \A n \in 1 .. Len(hkLog) :
       hkLog[n] = "setItem" => \E m \in 1 .. n - 1 : hkLog[m] = "getItem"

C19_DisplayedArmWithinLimits ==
    /\ arm[2] >= -90 * UiUnit /\ arm[2] <= 90 * UiUnit
    /\ arm[3] >= -135 * UiUnit /\ arm[3] <= 135 * UiUnit

\* an animated angle is beyond its limit, and the arm was rendered from it
C19_Witness ==
    /\ uiHydrated
    /\ arm = Rendered(anim)
    /\ \/ anim[2] < -90 * UiUnit \/ anim[2] > 90 * UiUnit
       \/ anim[3] < -135 * UiUnit \/ anim[3] > 135 * UiUnit

\* C20: when a tween that started within the joint ranges has run to
\* t = 1, the shoulder and forearm angles passed to RobotArm are the
\* targets of the tween, and the base angle is its target modulo 360.
C20_TweenReachesTarget ==
    (/\ uiHydrated /\ ~raf /\ tq = tEnd
     /\ fromRef[2] >= -90 * UiUnit /\ fromRef[2] <= 90 * UiUnit
     /\ fromRef[3] >= -135 * UiUnit /\ fromRef[3] <= 135 * UiUnit) =>
        /\ arm[2] = toRef[2]
        /\ arm[3] = toRef[3]
        /\ (arm[1] - toRef[1]) % (360 * UiUnit) = 0

\* C21: when the body of a POST /api/ik request has no target, a target
\* that is not an array, or an array whose length is not 3, the response is
\* 400 'Invalid target', and no solver process is spawned, no payload
\* written and no timer set.
C21_MalformedTargetRejected ==
    (/\ ikPc \notin {"off", "entry"}
     /\ ikBody.parsed
     /\ \/ ikBody.target.t # "array"
        \/ Len(ikBody.target.v) # 3) =>
        /\ ikPc = "done"
        /\ ikResp = [status |-> 400, error |-> "Invalid target"]
        /\ ikProc = "none"
        /\ ikPayload = NoPayload
        /\ ikTimer = "unset"

\* a request whose target is an array of two numbers has been answered
C21_Witness ==
    /\ ikPc = "done"
    /\ ikBody.parsed
    /\ ikBody.target = Arr(<<1, 3>>)
    /\ ikResp.status = 400

\* C23: a POST /api/ik request whose timer has fired (timedOut set and
\* SIGKILL attempted) is answered with status 500, and a request is
\* answered with status 200 only when the solver closed with exit code 0
\* and its stdout parsed as JSON.
C23_TimedOutNeverSuccess ==
    /\ (ikPc = "done" /\ ikTimer = "fired" /\ ikTimedOut) =>
          ikResp.status = 500
    /\ ikResp.status = 200 =>
          /\ ikProc = "closed"
          /\ ikExit = [ended |-> TRUE, code |-> Num(0), json |-> TRUE]

\* C24: a POST /api/ik request with a well-formed target is answered, once:
\* resolve is called at most once, a request whose solver was spawned is
\* eventually answered, also when the solver never ends by itself, and an
\* answer given is never changed.
C24_ExactlyOneResponse ==
    /\ [](ikSettled <= 1)
    /\ [](ikPc = "done" <=> ikResp # NoResponse)
    /\ (ikPc = "solving") ~> (ikPc = "done")
    /\ [][ikPc = "done" => (ikPc' = "done" /\ ikResp' = ikResp)]_vars

\* the solver never ended by itself, the timer killed it, and the close of
\* the killed process resolved the promise
C24_Witness ==
    /\ ikPc = "done"
    /\ ikProc = "closed"
    /\ ikTimer = "fired"
    /\ ikExit.code = Null
    /\ ikResult = [settled |-> TRUE, code |-> Null, timedOut |-> TRUE]
    /\ ikSettled = 1

\* C22: for every pulse count angleToPulses produces, the two registers
\* moveToAngle writes for it are within 0 .. 65535, and read as one
\* big-endian signed 32-bit integer they are that pulse count.
C22_RegistersRoundTrip ==
    /\ rtPc \in {"written", "read"} =>
          /\ rtPulses >= -60000 /\ rtPulses <= 60000
          /\ \A k \in 1 .. 2 : rtRegs[k] >= 0 /\ rtRegs[k] <= 65535
    /\ rtPc = "read" => rtRead = rtPulses

\* the registers of -1 pulse have been read back
C22_Witness ==
    /\ rtPc = "read"
    /\ rtPulses = -1
    /\ rtRegs = <<65535, 65535>>
    /\ rtRead = -1

\* C25: the response of a request that a later call of runIk has superseded
\* is never applied: when such a request settles, the angles and the cached
\* angles of every goal stay as they are.
C25_LatestRequestWins ==
    [][\A req \in ikInFlight :
          (req.id < ikIssued /\ req \notin ikInFlight') =>
             /\ angleDeg' = angleDeg
             /\ lastG' = lastG
             /\ lastGTarget' = lastGTarget
             /\ ikApplied' = ikApplied]_vars

\* the response of the second call of runIk has been applied while the
\* aborted request of the first call has not settled yet
C25_Witness ==
    /\ ikIssued = 2
    /\ ikApplied = 2
    /\ \E req \in ikInFlight : req.id = 1 /\ req.aborted

\* C26: in every state, the cached angles of a goal were solved for the
\* position its target is at.
C26_GoalCacheConsistent ==
    \A g \in Goals : lastG[g].known => lastGTarget[g] = spherePos[g]

====
